---- MODULE Spec2Model ----
(***************************************************************************)
(* Model of src/ast_pass/error.rs: the Error value (position, ErrorKind,   *)
(* borrowed schema text), its derived ordering, and its Display rendering  *)
(* into a compiler-style diagnostic.                                       *)
(*                                                                         *)
(* Text is a sequence of tokens.  The schema text, the layout characters   *)
(* and the payload strings are sequences of one-character tokens; the      *)
(* fixed message literals of description() and notes() are kept as the     *)
(* chunks between their placeholders, backquotes and newlines.  "\n" is    *)
(* always a token of its own.                                              *)
(*                                                                         *)
(* The sink is the text written so far, as for to_string() and format!,    *)
(* whose writes cannot fail: the ? after a writeln! never returns early.   *)
(* The schema texts hold no carriage return, so that str::lines only ever  *)
(* splits at "\n".  A panic ends the call in the state "panic", with the   *)
(* sink as the writes before it left it.                                   *)
(***************************************************************************)
EXTENDS Integers, Sequences, FiniteSets, TLC

VARIABLES
    err,              \* the Error being rendered: [pos, kind, raw_schema]
    colorize,         \* whether the colored crate emits escape codes
    pc,               \* position of Display::fmt in its body
    out,              \* everything written to the Formatter so far
    note_lines,       \* the lines of notes the for loop has still to write
    call,             \* the call under test, for the helper specifications
    ret               \* its return value, once it has returned

vars == <<err, colorize, pc, out, note_lines, call, ret>>

\* The shape of the state: the Error is borrowed and never changes, fmt is
\* at one of its statements, has returned, or has panicked.
TypeOK ==
    /\ err.pos.line \in Nat /\ err.pos.column \in Nat
    /\ colorize \in BOOLEAN
    /\ pc \in {"header", "location", "gutter", "source", "caret", "notes",
               "note_loop", "done", "panic", "idle"}
    /\ out \in Seq(STRING)
    /\ note_lines \in Seq(Seq(STRING))
    /\ ret.done \in BOOLEAN

(* ------------------------------ bounds -------------------------------- *)
MaxLen == 2
MaxLine == 3
MaxCol == 2
MaxSize == 5
MaxN == 120
MaxOrdPos == 2
LongPrefix == 9

(* --------------------------- program constants ------------------------ *)
indent == 4
I32Max == 2147483647

NL == "\n"
\* the backquote of the message literals, a token of its own
BQ == "<backquote>"
Alphabet == {"a", " ", NL}
Texts(k) == UNION {[1..m -> Alphabet] : m \in 0..k}

(* ------------------------------ helpers ------------------------------- *)
\* <Indent for &str>::indent: the early return at size 0, else a loop that
\* pushes one space per iteration and then the string itself.
RECURSIVE PushSpaces(_, _)
PushSpaces(o, k) == IF k = 0 THEN o ELSE PushSpaces(Append(o, " "), k - 1)

\* A faulty variant: the loop runs over 0..=size
IndentInclusive(self, size) ==
    IF size = 0 THEN self ELSE PushSpaces(<<>>, size + 1) \o self

Indent(self, size) ==
    IF size = 0 THEN self ELSE PushSpaces(<<>>, size) \o self

\* 10^k, for k in 0..9
RECURSIVE Pow10(_)
Pow10(k) == IF k = 0 THEN 1 ELSE 10 * Pow10(k - 1)

\* f64::floor(f64::log10(n as f64)) for 1 <= n < 2^31.  The conversion of an
\* i32 to f64 is exact, log10 returns k exactly at 10^k, and at 10^k - 1 the
\* logarithm is below k by more than 4e-10, far above the rounding error.
\* A faulty variant: the logarithm falls just short of k at 10^k
FloorLog10Low(n) ==
    IF n = 1 THEN 0
    ELSE CHOOSE k \in 0..9 : Pow10(k) < n /\ (k = 9 \/ n <= Pow10(k + 1))

FloorLog10(n) ==
    CHOOSE k \in 0..9 : Pow10(k) <= n /\ (k = 9 \/ n < Pow10(k + 1))

\* number_of_digits, on the non-negative i32
number_of_digits(n) ==
    IF n = 0 THEN 1 ELSE FloorLog10(n) + 1

\* The first "\n" of s, or one past its end when it has none.
FirstNl(s) ==
    CHOOSE i \in 1..(Len(s) + 1) :
        /\ i = Len(s) + 1 \/ s[i] = NL
        /\ \A j \in 1..(i - 1) : s[j] # NL

\* str::split_terminator('\n'): the piece up to the next "\n", then the
\* pieces of what follows it; an empty remainder yields nothing.
RECURSIVE SplitTerminator(_)
SplitTerminator(s) ==
    IF s = <<>> THEN <<>>
    ELSE <<SubSeq(s, 1, FirstNl(s) - 1)>>
            \o SplitTerminator(SubSeq(s, FirstNl(s) + 1, Len(s)))

\* A faulty variant: split('\n'), which keeps the empty piece after a final newline
LinesKeepLast(s) ==
    IF s = <<>> \/ s[Len(s)] = NL
    THEN Append(SplitTerminator(s), <<>>)
    ELSE SplitTerminator(s)

\* str::lines
Lines(s) == SplitTerminator(s)

\* Display for usize: the decimal digits, most significant first.
DigitChar(d) == <<"0", "1", "2", "3", "4", "5", "6", "7", "8", "9">>[d + 1]

RECURSIVE Decimal(_)
Decimal(n) ==
    IF n < 10 THEN <<DigitChar(n)>>
    ELSE Append(Decimal(n \div 10), DigitChar(n % 10))

\* colored: s.bright_red() is s between the escape codes, or s alone when
\* colouring is switched off (no terminal, NO_COLOR).
ColorOn == "ESC[91m"
ColorOff == "ESC[0m"
bright_red(s) == IF colorize THEN <<ColorOn>> \o s \o <<ColorOff>> ELSE s

(* ----------------------------- ErrorKind ------------------------------ *)
\* The variants in declaration order; the derived Ord compares by this index.
KindTags ==
    << "DateTimeScalarNotDefined", "DateScalarNotDefined",
       "DirectivesNotSupported", "NoQueryType",
       "NonnullableFieldWithDefaultValue", "NullDefaultValue",
       "ObjectArgumentWithDefaultValue", "SubscriptionsNotSupported",
       "TypeExtensionNotSupported", "UnionFieldTypeMismatch",
       "UnsupportedAttribute", "UnsupportedAttributePair",
       "VariableDefaultValue" >>

\* A kind is its tag and its payload, the fields in declaration order:
\* UnionFieldTypeMismatch has <<union_name, field_name, type_a, field_type_a,
\* type_b, field_type_b>>.
Kind(tag, args) == [tag |-> tag, args |-> args]

union_name(kind) == kind.args[1]
field_name(kind) == kind.args[2]
type_a(kind) == kind.args[3]
field_type_a(kind) == kind.args[4]
type_b(kind) == kind.args[5]
field_type_b(kind) == kind.args[6]

\* ErrorKind::description
description(kind) ==
    CASE kind.tag = "DateTimeScalarNotDefined" ->
           <<"You have to define a custom scalar called ", BQ, "DateTime", BQ, " to use this type">>
      [] kind.tag = "DateScalarNotDefined" ->
           <<"You have to define a custom scalar called ", BQ, "Date", BQ, " to use this type">>
      [] kind.tag = "DirectivesNotSupported" ->
           <<"Directives are currently not supported">>
      [] kind.tag = "SubscriptionsNotSupported" ->
           <<"Subscriptions are currently not supported">>
      [] kind.tag = "NoQueryType" ->
           <<"Schema doesn't have root a Query type">>
      [] kind.tag = "NonnullableFieldWithDefaultValue" ->
           <<"Fields with default arguments values must be nullable">>
      [] kind.tag = "UnsupportedAttribute" ->
           <<"The attribute ">> \o kind.args[1] \o <<" is unsupported">>
      [] kind.tag = "UnsupportedAttributePair" ->
           <<"Unsupported attribute value '">> \o kind.args[2]
               \o <<"' for attribute '">> \o kind.args[1] \o <<"'">>
      [] kind.tag = "ObjectArgumentWithDefaultValue" ->
           <<"Default arguments where the type is an object is currently not supported">>
      [] kind.tag = "NullDefaultValue" ->
           <<"Having a default argument value of ", BQ, "null", BQ, " is not supported. Use a nullable type instead">>
      [] kind.tag = "VariableDefaultValue" ->
           <<"Default arguments cannot refer to variables">>
      [] kind.tag = "TypeExtensionNotSupported" ->
           <<"Type extentions are not supported">>
      [] kind.tag = "UnionFieldTypeMismatch" ->
           <<"Error while generating ", BQ, "QueryTrail", BQ, " for union ", BQ>>
               \o union_name(kind) \o <<BQ>>

\* Option<String>
Some(s) == [some |-> TRUE, val |-> s]
None == [some |-> FALSE, val |-> <<>>]

\* "`{}.{}`" of a type and the field
TypeField(kind, type) ==
    <<BQ>> \o type \o <<".">> \o field_name(kind) \o <<BQ>>

\* writeln!(f, "`{}.{}` and `{}.{}` are not the same type", ...)
NotSameTypeLine(kind) ==
    TypeField(kind, type_a(kind)) \o <<" and ">> \o TypeField(kind, type_b(kind))
        \o <<" are not the same type", NL>>

\* writeln!(f, "    `{}.{}` is of type `{}`", ...)
IsOfTypeLine(kind, type, field_type) ==
    <<"    ">> \o TypeField(kind, type)
        \o <<" is of type ", BQ>> \o field_type \o <<BQ, NL>>

\* writeln!(f, "That makes it impossible ... `QueryTrail<_, {}, _>::{}()`", ...)
MethodLine(kind) ==
    <<"That makes it impossible to generate code for the method ",
      BQ, "QueryTrail<_, ">>
        \o union_name(kind) \o <<", _>::">> \o field_name(kind) \o <<"()", BQ, NL>>

\* writeln!(f, "It would have to return `{}` if `{}` is `{},` but `{}` if it
\* is a `{}`", ...), with the two field types it names
ReturnLine(kind, first, second) ==
    (<<"It would have to return ", BQ>> \o first \o <<BQ, " if ", BQ>>
        \o union_name(kind) \o <<BQ, " is ", BQ>> \o type_a(kind))
    \o (<<",", BQ, " but ", BQ>> \o second
        \o <<BQ, " if it is a ", BQ>> \o type_b(kind) \o <<BQ, NL>>)

\* A faulty variant: the last sentence names the field types the wrong way round
MismatchNotesSwapped(kind) ==
    (NotSameTypeLine(kind)
        \o IsOfTypeLine(kind, type_a(kind), field_type_a(kind))
        \o IsOfTypeLine(kind, type_b(kind), field_type_b(kind)))
    \o (MethodLine(kind)
        \o ReturnLine(kind, field_type_b(kind), field_type_a(kind)))

\* The five writeln! calls of the UnionFieldTypeMismatch arm of notes.
MismatchNotes(kind) ==
    (NotSameTypeLine(kind)
        \o IsOfTypeLine(kind, type_a(kind), field_type_a(kind))
        \o IsOfTypeLine(kind, type_b(kind), field_type_b(kind)))
    \o (MethodLine(kind)
        \o ReturnLine(kind, field_type_a(kind), field_type_b(kind)))

\* ErrorKind::notes
notes(kind) ==
    CASE kind.tag = "SubscriptionsNotSupported" ->
           Some(<<"Subscriptions are currently not supported by Juniper so we're unsure when",
                  NL, "or if we'll support them">>)
      [] kind.tag = "UnionFieldTypeMismatch" -> Some(MismatchNotes(kind))
      [] kind.tag = "DateTimeScalarNotDefined" ->
           Some(<<"Insert ", BQ, "scalar DateTime", BQ, " into your schema">>)
      [] kind.tag = "DateScalarNotDefined" ->
           Some(<<"Insert ", BQ, "scalar Date", BQ, " into your schema">>)
      [] OTHER -> None

(* ------------------------------ inputs -------------------------------- *)
Foo == <<"F", "o", "o">>
Bar == <<"b", "a", "r">>
TypeNames == {<<"A">>, <<"B">>}
FieldTypes == {<<"I", "n", "t">>, <<"S", "t", "r", "i", "n", "g">>}
AttrNames == {<<"x">>, <<"y">>}

PayloadFree ==
    {Kind(KindTags[i], <<>>) : i \in (1..9) \cup {13}}
Mismatches ==
    {Kind("UnionFieldTypeMismatch", <<Foo, Bar, a, fa, b, fb>>) :
        a \in TypeNames, fa \in FieldTypes, b \in TypeNames, fb \in FieldTypes}
Attributes ==
    {Kind("UnsupportedAttribute", <<a>>) : a \in AttrNames}
AttributePairs ==
    {Kind("UnsupportedAttributePair", <<a, v>>) : a \in AttrNames, v \in AttrNames}
Kinds == PayloadFree \cup Mismatches \cup Attributes \cup AttributePairs

\* The kinds rendered: every variant, the mismatch with A.bar and B.bar.
RenderKinds ==
    PayloadFree
    \cup {k \in Mismatches : type_a(k) = <<"A">> /\ type_b(k) = <<"B">>}
    \cup {Kind("UnsupportedAttribute", <<<<"x">>>>),
          Kind("UnsupportedAttributePair", <<<<"x">>, <<"y">>>>)}

Pos(line, column) == [line |-> line, column |-> column]
Error(pos, kind, raw_schema) ==
    [pos |-> pos, kind |-> kind, raw_schema |-> raw_schema]

NoCall == [fn |-> "none"]
NoRet == [done |-> FALSE]
Returned(v) == [done |-> TRUE, val |-> v]

(* --------------------------- Display::fmt ----------------------------- *)
schema_lines == Lines(err.raw_schema)

\* self.pos.line as i32: the identity below 2^31, which bounds every line here
number_of_digits_in_line_count == number_of_digits(err.pos.line)

\* writeln!(f, ...): the formatted text and a newline, appended to the sink
Writeln(text) == out \o text \o <<NL>>

\* k empty lines
RECURSIVE EmptyLines(_)
EmptyLines(k) == IF k = 0 THEN <<>> ELSE <<NL>> \o EmptyLines(k - 1)

\* Every short schema text with every line from 0 to past its end, and the
\* same texts below LongPrefix empty lines, with the lines from LongPrefix on.
Init ==
    /\ err \in {Error(Pos(p + l, c), k, EmptyLines(p) \o s) :
                    p \in {0, LongPrefix}, l \in 0..MaxLine, c \in 0..MaxCol,
                    k \in RenderKinds, s \in Texts(MaxLen)}
    /\ colorize \in BOOLEAN
    /\ pc = "header"
    /\ out = <<>>
    /\ note_lines = <<>>
    /\ call = NoCall
    /\ ret = NoRet

\* writeln!(f, "{error}: {kind}", ...)
WriteHeader ==
    /\ pc = "header"
    /\ out' = Writeln(bright_red(<<"e", "r", "r", "o", "r">>) \o <<":", " ">>
                        \o description(err.kind))
    /\ pc' = "location"
    /\ UNCHANGED <<err, colorize, note_lines, call, ret>>

\* A faulty variant: the location line padded to the full gutter width
WriteLocationFullPad ==
    /\ pc = "location"
    /\ out' = Writeln(Indent(<<>>, number_of_digits_in_line_count)
                        \o <<" ", "-", "-", ">", " ",
                             "s", "c", "h", "e", "m", "a", ":">>
                        \o Decimal(err.pos.line) \o <<":">>
                        \o Decimal(err.pos.column))
    /\ pc' = "gutter"
    /\ UNCHANGED <<err, colorize, note_lines, call, ret>>

\* writeln!(f, "{indent} --> schema:{line}:{col}", ...)
WriteLocation ==
    /\ pc = "location"
    /\ out' = Writeln(Indent(<<>>, number_of_digits_in_line_count - 1)
                        \o <<" ", "-", "-", ">", " ",
                             "s", "c", "h", "e", "m", "a", ":">>
                        \o Decimal(err.pos.line) \o <<":">>
                        \o Decimal(err.pos.column))
    /\ pc' = "gutter"
    /\ UNCHANGED <<err, colorize, note_lines, call, ret>>

\* writeln!(f, "{} |", "".indent(number_of_digits_in_line_count))
WriteGutter ==
    /\ pc = "gutter"
    /\ out' = Writeln(Indent(<<>>, number_of_digits_in_line_count) \o <<" ", "|">>)
    /\ pc' = "source"
    /\ UNCHANGED <<err, colorize, note_lines, call, ret>>

\* A faulty variant: the last line counts as out of range
IndexInRangeShort ==
    /\ err.pos.line >= 1
    /\ err.pos.line - 1 < Len(schema_lines) - 1

\* The bounds check of schema_lines[self.pos.line - 1].  At line 0 the
\* subtraction traps, or wraps to usize::MAX, which is out of range like
\* every line past the end.
IndexInRange ==
    /\ err.pos.line >= 1
    /\ err.pos.line - 1 < Len(schema_lines)

\* schema_lines[self.pos.line - 1] is in range: the line is written
WriteSourceLine ==
    /\ pc = "source"
    /\ IndexInRange
    /\ out' = Writeln(Decimal(err.pos.line) \o <<" ", "|">>
                        \o Indent(schema_lines[err.pos.line], indent))
    /\ pc' = "caret"
    /\ UNCHANGED <<err, colorize, note_lines, call, ret>>

\* A faulty variant: the source line is looked up before anything is written
PanicIndexAtEntry ==
    /\ pc = "header"
    /\ ~IndexInRange
    /\ pc' = "panic"
    /\ UNCHANGED <<err, colorize, out, note_lines, call, ret>>

\* The arguments are evaluated before anything of the line is written: out
\* of range, the index panics with the first three lines in the sink.
PanicIndex ==
    /\ pc = "source"
    /\ ~IndexInRange
    /\ pc' = "panic"
    /\ UNCHANGED <<err, colorize, out, note_lines, call, ret>>

\* A faulty variant: the column taken as 0-based
CaretOffsetZeroBased == err.pos.column + indent

\* self.pos.column - 1 + indent; at column 0, in a build that does not trap
\* overflow, usize::MAX + indent wraps to indent - 1
CaretOffset ==
    IF err.pos.column = 0 THEN indent - 1 ELSE err.pos.column - 1 + indent

\* writeln!(f, "{} |{}{}", ...)
WriteCaret ==
    /\ pc = "caret"
    /\ out' = Writeln(Indent(<<>>, number_of_digits_in_line_count) \o <<" ", "|">>
                        \o Indent(<<>>, CaretOffset)
                        \o bright_red(<<"^">>))
    /\ pc' = "notes"
    /\ UNCHANGED <<err, colorize, note_lines, call, ret>>

\* column 0 in a build that traps overflow: the subtraction panics before
\* the write.  Which of the two a build does is its choice.
PanicColumn ==
    /\ pc = "caret"
    /\ err.pos.column = 0
    /\ pc' = "panic"
    /\ UNCHANGED <<err, colorize, out, note_lines, call, ret>>

\* A faulty variant: the notes follow the caret line directly
NotesPresentNoBlank ==
    /\ pc = "notes"
    /\ notes(err.kind).some
    /\ note_lines' = Lines(notes(err.kind).val)
    /\ pc' = "note_loop"
    /\ UNCHANGED <<err, colorize, out, call, ret>>

\* if let Some(notes) = self.kind.notes() { writeln!(f)?; for line in ... }
NotesPresent ==
    /\ pc = "notes"
    /\ notes(err.kind).some
    /\ out' = Writeln(<<>>)
    /\ note_lines' = Lines(notes(err.kind).val)
    /\ pc' = "note_loop"
    /\ UNCHANGED <<err, colorize, call, ret>>

\* writeln!(f, "{}", line)
WriteNoteLine ==
    /\ pc = "note_loop"
    /\ note_lines # <<>>
    /\ out' = Writeln(Head(note_lines))
    /\ note_lines' = Tail(note_lines)
    /\ UNCHANGED <<err, colorize, pc, call, ret>>

\* Ok(()), after the loop or when there are no notes
Return ==
    /\ \/ pc = "notes" /\ ~notes(err.kind).some
       \/ pc = "note_loop" /\ note_lines = <<>>
    /\ pc' = "done"
    /\ UNCHANGED <<err, colorize, out, note_lines, call, ret>>

Next ==
    \/ WriteHeader
    \/ WriteLocation
    \/ WriteGutter
    \/ WriteSourceLine
    \/ PanicIndex
    \/ WriteCaret
    \/ PanicColumn
    \/ NotesPresent
    \/ WriteNoteLine
    \/ Return

Spec == Init /\ [][Next]_vars

(* ------------------------- derived comparison ------------------------- *)
CharCode(c) ==
    CASE c = NL -> 10 [] c = " " -> 32
      [] c = "A" -> 65 [] c = "B" -> 66 [] c = "F" -> 70 [] c = "I" -> 73
      [] c = "S" -> 83 [] c = "a" -> 97 [] c = "b" -> 98 [] c = "g" -> 103
      [] c = "i" -> 105 [] c = "n" -> 110 [] c = "o" -> 111 [] c = "r" -> 114
      [] c = "t" -> 116 [] c = "x" -> 120 [] c = "y" -> 121

\* Ord for usize
CmpUsize(a, b) == IF a < b THEN "Less" ELSE IF a = b THEN "Equal" ELSE "Greater"

\* Ord for str: lexicographic by bytes, a proper prefix first
RECURSIVE CmpStrFrom(_, _, _)
CmpStrFrom(s, t, i) ==
    IF i > Len(s) \/ i > Len(t) THEN CmpUsize(Len(s), Len(t))
    ELSE IF s[i] # t[i] THEN CmpUsize(CharCode(s[i]), CharCode(t[i]))
    ELSE CmpStrFrom(s, t, i + 1)

CmpStr(s, t) == CmpStrFrom(s, t, 1)

\* Ord for graphql_parser::Pos, derived: line, then column
CmpPos(p, q) ==
    IF CmpUsize(p.line, q.line) # "Equal" THEN CmpUsize(p.line, q.line)
    ELSE CmpUsize(p.column, q.column)

TagIndex(tag) == CHOOSE i \in 1..Len(KindTags) : KindTags[i] = tag

\* the payload fields of one variant, compared in declaration order
RECURSIVE CmpFieldsFrom(_, _, _)
CmpFieldsFrom(x, y, i) ==
    IF i > Len(x) THEN "Equal"
    ELSE IF CmpStr(x[i], y[i]) # "Equal" THEN CmpStr(x[i], y[i])
    ELSE CmpFieldsFrom(x, y, i + 1)

\* Ord for ErrorKind, derived: the variant's index, then its fields
CmpKind(a, b) ==
    IF a.tag # b.tag THEN CmpUsize(TagIndex(a.tag), TagIndex(b.tag))
    ELSE CmpFieldsFrom(a.args, b.args, 1)

\* A faulty variant: the kind compared before the position
CmpErrorKindFirst(a, b) ==
    IF CmpKind(a.kind, b.kind) # "Equal" THEN CmpKind(a.kind, b.kind)
    ELSE IF CmpPos(a.pos, b.pos) # "Equal" THEN CmpPos(a.pos, b.pos)
    ELSE CmpStr(a.raw_schema, b.raw_schema)

\* Ord for Error, derived: pos, then kind, then raw_schema
cmp(a, b) ==
    IF CmpPos(a.pos, b.pos) # "Equal" THEN CmpPos(a.pos, b.pos)
    ELSE IF CmpKind(a.kind, b.kind) # "Equal" THEN CmpKind(a.kind, b.kind)
    ELSE CmpStr(a.raw_schema, b.raw_schema)

(* ---------------------- the helpers, called alone --------------------- *)
Idle ==
    /\ err = Error(Pos(1, 1), Kind("NoQueryType", <<>>), <<>>)
    /\ colorize = FALSE
    /\ pc = "idle"
    /\ out = <<>>
    /\ note_lines = <<>>
    /\ ret = NoRet

Return1(v) ==
    /\ ~ret.done
    /\ ret' = Returned(v)
    /\ UNCHANGED <<err, colorize, pc, out, note_lines, call>>

\* number_of_digits on small numbers, around every power of ten, and i32::MAX
DigitInputs ==
    (0..MaxN)
    \cup UNION {{Pow10(k) - 1, Pow10(k), Pow10(k) + 1} : k \in 1..9}
    \cup {I32Max - 1, I32Max}

InitDigits ==
    /\ Idle
    /\ call \in {[fn |-> "number_of_digits", n |-> n] : n \in DigitInputs}

CallNumberOfDigits ==
    /\ call.fn = "number_of_digits"
    /\ Return1(number_of_digits(call.n))

SpecDigits == InitDigits /\ [][CallNumberOfDigits]_vars

\* indent on every short text and size
InitIndent ==
    /\ Idle
    /\ call \in {[fn |-> "indent", self |-> s, size |-> k] :
                    s \in Texts(MaxLen), k \in 0..MaxSize}

CallIndent ==
    /\ call.fn = "indent"
    /\ Return1(Indent(call.self, call.size))

SpecIndent == InitIndent /\ [][CallIndent]_vars

\* the comparison of every pair among three errors
OrdKinds ==
    {Kind("DateTimeScalarNotDefined", <<>>),
     Kind("UnsupportedAttribute", <<<<"x">>>>),
     Kind("UnsupportedAttribute", <<<<"y">>>>),
     Kind("UnionFieldTypeMismatch",
          <<Foo, Bar, <<"A">>, <<"S", "t", "r", "i", "n", "g">>, <<"B">>, <<"I", "n", "t">>>>),
     Kind("UnionFieldTypeMismatch",
          <<Foo, Bar, <<"B">>, <<"I", "n", "t">>, <<"A">>, <<"I", "n", "t">>>>)}

OrdErrors ==
    {Error(Pos(l, c), k, s) :
        l \in 1..MaxOrdPos, c \in 1..2, k \in OrdKinds,
        s \in {<<"a">>, <<"a", NL>>}}

InitOrd ==
    /\ Idle
    /\ call \in {[fn |-> "cmp", errors |-> <<a, b, c>>] :
                    a \in OrdErrors, b \in OrdErrors, c \in OrdErrors}

CallCmp ==
    /\ call.fn = "cmp"
    /\ Return1([i \in 1..3 |-> [j \in 1..3 |-> cmp(call.errors[i], call.errors[j])]])

SpecOrd == InitOrd /\ [][CallCmp]_vars

\* description and notes on every kind
InitKind ==
    /\ Idle
    /\ call \in {[fn |-> f, kind |-> k] : f \in {"description", "notes"}, k \in Kinds}

CallDescription ==
    /\ call.fn = "description"
    /\ Return1(description(call.kind))

CallNotes ==
    /\ call.fn = "notes"
    /\ Return1(notes(call.kind))

NextKind == CallDescription \/ CallNotes

SpecKind == InitKind /\ [][NextKind]_vars

(* ======================= properties of rendering ====================== *)
\* The text without the colour codes.
IsText(tok) == tok \notin {ColorOn, ColorOff}
Plain(text) == SelectSeq(text, IsText)

\* The lines of a text, read off the positions of its newlines.
NlCount(text, p) == Cardinality({q \in 1..p : text[q] = NL})
NthNl(text, k) == CHOOSE p \in 1..Len(text) : text[p] = NL /\ NlCount(text, p) = k
NumLines(text) ==
    NlCount(text, Len(text))
        + (IF Len(text) > 0 /\ text[Len(text)] # NL THEN 1 ELSE 0)
LineAt(text, k) ==
    SubSeq(text,
           IF k = 1 THEN 1 ELSE NthNl(text, k - 1) + 1,
           IF k <= NlCount(text, Len(text)) THEN NthNl(text, k) - 1 ELSE Len(text))

Spaces(k) == [i \in 1..k |-> " "]
StartsWith(text, prefix) ==
    Len(text) >= Len(prefix) /\ SubSeq(text, 1, Len(prefix)) = prefix
Contains(text, sub) ==
    \E i \in 0..(Len(text) - Len(sub)) : SubSeq(text, i + 1, i + Len(sub)) = sub

Rendered == Plain(out)
ValidLine == 1 <= err.pos.line /\ err.pos.line <= NumLines(err.raw_schema)
SourceLine == LineAt(err.raw_schema, err.pos.line)
GutterWidth == Len(Decimal(err.pos.line))
HasNotes ==
    err.kind.tag \in {"SubscriptionsNotSupported", "UnionFieldTypeMismatch",
                      "DateTimeScalarNotDefined", "DateScalarNotDefined"}
CaretWritten == pc \in {"notes", "note_loop", "done"}
BarAt(line) == CHOOSE i \in 1..Len(line) : line[i] = "|" /\ \A j \in 1..(i - 1) : line[j] # "|"

\* C1: a returned rendering of an error with a line inside the source text and
\* a kind without notes is exactly five lines, colour codes aside: the header
\* "error: " and the description; w - 1 spaces and " --> schema:L:C"; w spaces
\* and " |"; L, " |", four spaces and source line L verbatim; and the caret
\* line, which starts with w spaces and " |"; w is the number of digits of L.
C1_FiveLineLayout ==
    (pc = "done" /\ ValidLine /\ ~HasNotes) =>
        LET r == Rendered
            w == GutterWidth
        IN /\ NumLines(r) = 5
           /\ r[Len(r)] = NL
           /\ LineAt(r, 1)
                = <<"e", "r", "r", "o", "r", ":", " ">> \o description(err.kind)
           /\ LineAt(r, 2)
                = Spaces(w - 1)
                    \o <<" ", "-", "-", ">", " ", "s", "c", "h", "e", "m", "a", ":">>
                    \o Decimal(err.pos.line) \o <<":">> \o Decimal(err.pos.column)
           /\ LineAt(r, 3) = Spaces(w) \o <<" ", "|">>
           /\ LineAt(r, 4)
                = Decimal(err.pos.line) \o <<" ", "|", " ", " ", " ", " ">> \o SourceLine
           /\ StartsWith(LineAt(r, 5), Spaces(w) \o <<" ", "|">>)

\* a two-digit line with leading white space in it, rendered without notes
C1_Witness ==
    /\ pc = "done" /\ ValidLine /\ ~HasNotes
    /\ GutterWidth = 2
    /\ SourceLine = <<" ", "a">>
    /\ colorize

\* C2: once the caret line is written for a column c >= 1, it holds exactly
\* one caret, and between the vertical bar and the caret there are exactly
\* c + 3 characters, all of them spaces, whatever the source line and line number.
C2_CaretColumn ==
    (CaretWritten /\ err.pos.column >= 1) =>
        LET line == LineAt(Rendered, 5)
            bar == BarAt(line)
        IN /\ Cardinality({i \in 1..Len(line) : line[i] = "^"}) = 1
           /\ Len(line) = bar + err.pos.column + 3 + 1
           /\ line[Len(line)] = "^"
           /\ \A i \in (bar + 1)..(Len(line) - 1) : line[i] = " "

\* a caret past the end of a two-digit source line
C2_Witness ==
    /\ CaretWritten /\ ValidLine
    /\ err.pos.column = 2
    /\ Len(SourceLine) = 1
    /\ GutterWidth = 2

\* C4: an error whose line is outside the source text (line 0, or past the
\* last line, so any line of an empty text) is never rendered: the call gets
\* no further than the source line, where the index is out of range and it
\* can only fail.
C4_OutsideLineFails ==
    ~ValidLine =>
        /\ pc \in {"header", "location", "gutter", "source", "panic"}
        /\ ~IndexInRange

\* the failure on an empty source text
C4_Witness ==
    pc = "panic" /\ err.raw_schema = <<>> /\ err.pos.line = 1

C6_NotesSection ==
    pc = "done" =>
        LET n == notes(err.kind)
            r == Rendered
        IN /\ n.some <=> NumLines(r) > 5
           /\ Contains(LineAt(r, 5), <<"^">>)
           /\ r[Len(r)] = NL
           /\ n.some =>
                /\ NumLines(r) = 5 + 1 + NumLines(n.val)
                /\ LineAt(r, 6) = <<>>
                /\ \A i \in 1..NumLines(n.val) :
                      LineAt(r, 6 + i) = LineAt(n.val, i)

\* the five lines of notes of a union field type mismatch, all written
C6_Witness ==
    /\ pc = "done"
    /\ err.kind.tag = "UnionFieldTypeMismatch"
    /\ NumLines(Rendered) = 11

C8_IndentPrepends ==
    (call.fn = "indent" /\ ret.done) =>
        LET r == ret.val
            s == call.self
            k == call.size
        IN /\ Len(r) = Len(s) + k
           /\ \A i \in 1..k : r[i] = " "
           /\ SubSeq(r, k + 1, Len(r)) = s
           /\ k = 0 => r = s /\ r = PushSpaces(<<>>, k) \o s

\* three spaces before a text that itself starts with a space
C8_Witness ==
    /\ call.fn = "indent" /\ ret.done
    /\ call.size = 3
    /\ call.self = <<" ", "a">>
    /\ ret.val = <<" ", " ", " ", " ", "a">>

\* C9: for a union field type mismatch, description contains the union name;
\* notes is present and contains the six payload values, says that type_a's
\* field is of type field_type_a and type_b's of type field_type_b, and says
\* that the accessor would have to return field_type_a if the union is
\* type_a but field_type_b if it is type_b.
C9_MismatchMessages ==
    (call.fn \in {"description", "notes"} /\ ret.done
        /\ call.kind.tag = "UnionFieldTypeMismatch") =>
        LET k == call.kind
            IsOfType(t, ft) ==
                <<BQ>> \o t \o <<".">> \o field_name(k)
                    \o <<BQ, " is of type ", BQ>> \o ft \o <<BQ, NL>>
        IN /\ call.fn = "description" => Contains(ret.val, union_name(k))
           /\ call.fn = "notes" =>
                /\ ret.val.some
                /\ \A i \in 1..6 : Contains(ret.val.val, k.args[i])
                /\ Contains(ret.val.val, IsOfType(type_a(k), field_type_a(k)))
                /\ Contains(ret.val.val, IsOfType(type_b(k), field_type_b(k)))
                /\ (type_a(k) # type_b(k) /\ field_type_a(k) # field_type_b(k)) =>
                      /\ ~Contains(ret.val.val, IsOfType(type_a(k), field_type_b(k)))
                      /\ ~Contains(ret.val.val, IsOfType(type_b(k), field_type_a(k)))
                /\ Contains(ret.val.val,
                            (<<"It would have to return ", BQ>> \o field_type_a(k)
                                \o <<BQ, " if ", BQ>> \o union_name(k)
                                \o <<BQ, " is ", BQ>> \o type_a(k))
                            \o (<<",", BQ, " but ", BQ>> \o field_type_b(k)
                                \o <<BQ, " if it is a ", BQ>> \o type_b(k) \o <<BQ, NL>>))

\* the notes for Foo.bar with A: Int and B: String
C9_Witness ==
    /\ call.fn = "notes" /\ ret.done
    /\ call.kind = Kind("UnionFieldTypeMismatch",
                        <<Foo, Bar, <<"A">>, <<"I", "n", "t">>,
                          <<"B">>, <<"S", "t", "r", "i", "n", "g">>>>)
    /\ NumLines(ret.val.val) = 5

\* C7: the comparison is a total order: two errors compare Equal exactly when
\* they are the same, Less one way exactly when Greater the other way, and
\* transitively.  Errors at different positions compare as their positions
\* do, by line and then column, whatever their kinds; at one position, errors
\* of different kinds compare as their kinds do.  So three errors have
\* exactly one sorted arrangement as a sequence.
Perms3 == {<<1, 2, 3>>, <<1, 3, 2>>, <<2, 1, 3>>, <<2, 3, 1>>, <<3, 1, 2>>, <<3, 2, 1>>}
AtMost(o) == o \in {"Less", "Equal"}
C7_TotalOrderPositionFirst ==
    (call.fn = "cmp" /\ ret.done) =>
        LET e == call.errors
            o == ret.val
            Sorted(p) == AtMost(o[p[1]][p[2]]) /\ AtMost(o[p[2]][p[3]])
            Arranged(p) == [i \in 1..3 |-> e[p[i]]]
        IN /\ \A i, j \in 1..3 :
                /\ o[i][j] \in {"Less", "Equal", "Greater"}
                /\ o[i][j] = "Equal" <=> e[i] = e[j]
                /\ o[i][j] = "Less" <=> o[j][i] = "Greater"
                /\ e[i].pos.line < e[j].pos.line => o[i][j] = "Less"
                /\ (e[i].pos.line = e[j].pos.line
                        /\ e[i].pos.column < e[j].pos.column) => o[i][j] = "Less"
                /\ (e[i].pos = e[j].pos /\ e[i].kind # e[j].kind) =>
                        o[i][j] = CmpKind(e[i].kind, e[j].kind)
           /\ \A i, j, k \in 1..3 :
                (AtMost(o[i][j]) /\ AtMost(o[j][k])) => AtMost(o[i][k])
           /\ Cardinality({Arranged(p) : p \in {q \in Perms3 : Sorted(q)}}) = 1

\* an error of the first kind on line 2 after an error of a later kind on line 1
C7_Witness ==
    /\ call.fn = "cmp" /\ ret.done
    /\ call.errors[1].pos = Pos(2, 1)
    /\ call.errors[1].kind.tag = "DateTimeScalarNotDefined"
    /\ call.errors[2].pos = Pos(1, 2)
    /\ call.errors[2].kind.tag = "UnsupportedAttribute"
    /\ ret.val[1][2] = "Greater"

====
